---- MODULE Spec2Model ----
(***************************************************************************)
(* Voice Turn Controller of movi-frontend/app/voiceChat/page.tsx.          *)
(*                                                                         *)
(* Two controllers live in that file:                                      *)
(*   - the push-to-talk page (lines 23-551): capture session, three-stage  *)
(*     pipeline, playback manager, conversation log;  specification Spec,  *)
(*     CaptureSpec for the capture session and the pipeline alone, and     *)
(*     PlaybackSpec for the page used one turn at a time                   *)
(*   - the streaming page (lines 659-1067): the ChatInterface component    *)
(*     that reconciles data-channel events, the assistant state and the    *)
(*     browser speech preview;  specification StreamSpec, and SessionSpec  *)
(*     for the page from its start screen on (token request, room)         *)
(* VariantSpec is the page in either variant.                              *)
(*                                                                         *)
(* Every action is one event-loop task: a DOM event handler, the           *)
(* continuation of an awaited promise, or a media callback, together with  *)
(* the React effects its state changes trigger.                            *)
(***************************************************************************)
EXTENDS Integers, Sequences, FiniteSets, TLC

(***************************************************************************)
(* Bounds of the model                                                     *)
(***************************************************************************)
MaxGestures == 2      \* presses of the record button
MaxTicks    == 1      \* clock steps
MaxChunks   == 1      \* non-empty data chunks kept in audioChunksRef
MaxPlays    == 3      \* Audio elements after which "Play audio" is no longer clicked
MaxLog      == 2      \* Turns in the streaming page's log
MaxTools    == 2      \* entries in activeTools
MaxPending  == 2      \* token requests in flight

(***************************************************************************)
(* Program constants                                                       *)
(***************************************************************************)
MinDurationMs == 500                  \* recordingDuration < 0.5 (seconds)
TickMs        == MinDurationMs        \* granularity of the model's clock

Gestures   == 1..MaxGestures
ChunkSizes == {0, 1}                  \* event.data.size of a chunk, bytes

Undefined       == "undefined"        \* a field the JSON message does not carry
SpeakerNames    == {"agent", "X", Undefined}   \* data.toolName of a transcription
ToolNames       == {"X", Undefined}            \* data.toolName of a tool_call / tool_result
Contents        == {"a", "b"}                  \* data.content, preview text
AssistantStates == {"idle", "listening", "thinking", "speaking"}

VARIABLES
  \* ---- push-to-talk page: React state and refs
  threadId,               \* useState(() => `voice_${Date.now()}_...`), no setter
  isRecording,            \* useState(false)
  isProcessing,           \* useState(false)
  messages,               \* useState<Message[]>([])
  audioPlaying,           \* useState<string|null>: id of the message playing, 0 = null
  mediaRecorderRef,       \* gesture whose MediaRecorder the ref holds, 0 = null
  audioChunksRef,         \* sizes of the chunks pushed by ondataavailable
  currentAudioRef,        \* index in audio of the element the ref holds, 0 = null
  recordingStartTimeRef,  \* ms
  recordingTimerRef,      \* gesture that created the interval the ref holds, 0 = null
  \* ---- push-to-talk page: environment
  now,                    \* Date.now(), ms
  timers,                 \* intervals created by setInterval and not cleared
  gesture,                \* per press: device request, stream, recorder, pipeline run
  lastStop,               \* what the latest onstop measured and decided
  nPressed,               \* presses so far
  audio,                  \* the Audio elements created by playAudio, in order
  \* ---- streaming page (ChatInterface)
  state,                  \* useVoiceAssistant().state
  chatMessages,           \* useState<Message[]>([])
  liveUserText,           \* useState(''): the live preview slot
  activeTools,            \* useState<ToolStatus[]>([])
  stt,                    \* running SpeechRecognition objects: the state their callback captured
  lastEvent,              \* the latest message handled on the data channel;
                          \* seq alternates with every message
  enteredWithPreview,     \* the state is thinking and was entered from listening
                          \* with a non-empty preview slot
  \* ---- streaming page (VoiceChatPage)
  isStarted,              \* useState(false): LiveKitRoom and ChatInterface are mounted
  token,                  \* useState<string>('')
  pendingTokens           \* fetches of /api/livekit-token in flight

pttVars == <<threadId, isRecording, isProcessing, messages, audioPlaying, mediaRecorderRef,
             audioChunksRef, currentAudioRef, recordingStartTimeRef,
             recordingTimerRef, now, timers, gesture, lastStop, nPressed, audio>>

streamVars == <<state, chatMessages, liveUserText, activeTools, stt, lastEvent,
                enteredWithPreview>>

roomVars == <<isStarted, token, pendingTokens>>

vars == <<pttVars, streamVars, roomVars>>

NoGesture ==
  [request |-> "none", stream |-> "none", recorder |-> "none",
   result |-> "none", blob |-> FALSE,
   run |-> "none", failedAt |-> "none", transcribeCalls |-> 0, chatCalls |-> 0, ttsCalls |-> 0,
   thread_id |-> "none"]

\* `voice_${Date.now()}_${Math.random()...}` generated at time t
SessionId(t) == <<"voice", t>>

RECURSIVE SumSizes(_)
SumSizes(chunks) ==
  IF chunks = <<>> THEN 0 ELSE Head(chunks) + SumSizes(Tail(chunks))

\* onstop without its minimum-duration check
StopOutcomeNoDurationCheck(durationMs, totalSize) ==
  IF totalSize = 0 THEN "EmptyRecording" ELSE "accepted"

\* onstop without its empty-recording check
StopOutcomeNoSizeCheck(durationMs, totalSize) ==
  IF durationMs < MinDurationMs THEN "RecordingTooShort" ELSE "accepted"

\* onstop's validation: duration first, then size.
StopOutcome(durationMs, totalSize) ==
  IF durationMs < MinDurationMs THEN "RecordingTooShort"
  ELSE IF totalSize = 0 THEN "EmptyRecording"
  ELSE "accepted"

Init ==
  /\ now = 0
  /\ threadId = SessionId(now)
  /\ isRecording = FALSE
  /\ isProcessing = FALSE
  /\ messages = <<>>
  /\ audioPlaying = 0
  /\ mediaRecorderRef = 0
  /\ audioChunksRef = <<>>
  /\ currentAudioRef = 0
  /\ recordingStartTimeRef = 0
  /\ recordingTimerRef = 0
  /\ timers = {}
  /\ gesture = [g \in Gestures |-> NoGesture]
  /\ lastStop = [g |-> 0, durationMs |-> 0, totalSize |-> 0, outcome |-> "none"]
  /\ nPressed = 0
  /\ audio = <<>>
  /\ state = "idle"
  /\ chatMessages = <<>>
  /\ liveUserText = ""
  /\ activeTools = <<>>
  /\ stt = {}
  /\ lastEvent = [type |-> "none", toolName |-> Undefined, seq |-> 0]
  /\ enteredWithPreview = FALSE
  /\ isStarted = FALSE
  /\ token = ""
  /\ pendingTokens = 0

\* The device request of press g has not been answered; its request is
\* "pending_released" once a release of the button has been handled meanwhile.
Pending(g) == gesture[g].request \in {"pending", "pending_released"}

\* The record button is rendered only while isProcessing is false.
ButtonRendered == ~isProcessing

\* onMouseDown / onTouchStart: startRecording up to its await getUserMedia.
Press ==
  /\ ButtonRendered
  /\ nPressed < MaxGestures
  /\ nPressed' = nPressed + 1
  /\ gesture' = [gesture EXCEPT ![nPressed + 1].request = "pending"]
  /\ UNCHANGED <<roomVars, streamVars, threadId, isRecording, isProcessing, messages, audioPlaying, mediaRecorderRef,
                 audioChunksRef, currentAudioRef, recordingStartTimeRef,
                 recordingTimerRef, now, timers, lastStop, audio>>

\* a catch that also logs the failure as a Turn
DeviceDeniedLogged(g) ==
  /\ Pending(g)
  /\ gesture' = [gesture EXCEPT ![g].request = "denied"]
  /\ messages' = Append(messages, [id |-> Len(messages) + 1, type |-> "assistant",
                                   text |-> "error", audioUrl |-> 0, run |-> g])
  /\ UNCHANGED <<roomVars, streamVars, threadId, isRecording, isProcessing, audioPlaying,
                 mediaRecorderRef, audioChunksRef, currentAudioRef, recordingStartTimeRef,
                 recordingTimerRef, now, timers, lastStop, nPressed, audio>>

\* getUserMedia rejects (NotAllowedError, NotFoundError, ...): the catch only alerts.
DeviceDenied(g) ==
  /\ Pending(g)
  /\ gesture' = [gesture EXCEPT ![g].request = "denied"]
  /\ UNCHANGED <<roomVars, streamVars, threadId, isRecording, isProcessing, messages, audioPlaying, mediaRecorderRef,
                 audioChunksRef, currentAudioRef, recordingStartTimeRef,
                 recordingTimerRef, now, timers, lastStop, nPressed, audio>>

\* getUserMedia resolves: the rest of startRecording's try block.
DeviceGranted(g) ==
  /\ Pending(g)
  /\ gesture' = [gesture EXCEPT ![g].request = "granted",
                                ![g].stream = "open",
                                ![g].recorder = "recording"]
  /\ mediaRecorderRef' = g
  /\ audioChunksRef' = <<>>
  /\ isRecording' = TRUE
  /\ recordingStartTimeRef' = now
  /\ timers' = timers \cup {g}
  /\ recordingTimerRef' = g
  /\ UNCHANGED <<roomVars, streamVars, threadId, isProcessing, messages, audioPlaying, currentAudioRef, now,
                 lastStop, nPressed, audio>>

\* mediaRecorder.ondataavailable: a chunk of `size` bytes from recorder g
\* (every 100 ms while recording, and once more between stop() and onstop).
DataAvailable(g, size) ==
  /\ gesture[g].recorder \in {"recording", "stopping"}
  /\ Len(audioChunksRef) < MaxChunks
  /\ audioChunksRef' = IF size > 0 THEN Append(audioChunksRef, size) ELSE audioChunksRef
  /\ UNCHANGED <<roomVars, streamVars, threadId, isRecording, isProcessing, messages, audioPlaying, mediaRecorderRef,
                 currentAudioRef, recordingStartTimeRef, recordingTimerRef, now,
                 timers, gesture, lastStop, nPressed, audio>>

\* a stopRecording that calls stop() whatever isRecording and the recorder's state
StopRecordingUnguarded(ref, recording, gs) ==
  IF ref # 0
  THEN [isRecording |-> FALSE, gesture |-> [gs EXCEPT ![ref].recorder = "stopping"]]
  ELSE [isRecording |-> recording, gesture |-> gs]

\* stopRecording: what it makes of isRecording and of the recorders, ref being
\* mediaRecorderRef.current; it does nothing unless the ref is set and
\* isRecording is true, and calls stop() only on a recorder that is recording.
StopRecording(ref, recording, gs) ==
  IF ref # 0 /\ recording
  THEN [isRecording |-> FALSE,
        gesture |-> IF gs[ref].recorder = "recording"
                    THEN [gs EXCEPT ![ref].recorder = "stopping"]
                    ELSE gs]
  ELSE [isRecording |-> recording, gesture |-> gs]

\* The button has been released: no press that still waits for its device
\* is held any more.
ButtonUp(gs) ==
  [g \in Gestures |->
     IF gs[g].request = "pending"
     THEN [gs[g] EXCEPT !.request = "pending_released"]
     ELSE gs[g]]

\* onMouseUp / onTouchEnd: stopRecording.
Release ==
  LET stopped == StopRecording(mediaRecorderRef, isRecording, gesture)
  IN
  /\ ButtonRendered
  /\ isRecording' = stopped.isRecording
  /\ gesture' = ButtonUp(stopped.gesture)
  /\ UNCHANGED <<roomVars, streamVars, threadId, isProcessing, messages, audioPlaying, mediaRecorderRef,
                 audioChunksRef, currentAudioRef, recordingStartTimeRef,
                 recordingTimerRef, now, timers, lastStop, nPressed, audio>>

\* Time passes; only the time a recorder is live is ever measured.
Tick ==
  /\ now < MaxTicks * TickMs
  /\ \E g \in Gestures : gesture[g].recorder \in {"recording", "stopping"}
  /\ now' = now + TickMs
  /\ UNCHANGED <<roomVars, streamVars, threadId, isRecording, isProcessing, messages, audioPlaying, mediaRecorderRef,
                 audioChunksRef, currentAudioRef, recordingStartTimeRef,
                 recordingTimerRef, timers, gesture, lastStop, nPressed, audio>>

\* mediaRecorder.onstop of recorder g, up to its first suspension:
\* clears the timer, validates, and either rejects (releasing the stream) or
\* enters processAudio, which sets isProcessing and issues the Transcribe request.
OnStop(g) ==
  LET durationMs == now - recordingStartTimeRef
      totalSize  == SumSizes(audioChunksRef)
      outcome    == StopOutcome(durationMs, totalSize)
      measured   == [gesture EXCEPT ![g].recorder = "inactive",
                                   ![g].result = outcome]
  IN
  /\ gesture[g].recorder = "stopping"
  /\ lastStop' = [g |-> g, durationMs |-> durationMs, totalSize |-> totalSize,
                  outcome |-> outcome]
  /\ timers' = IF recordingTimerRef # 0 THEN timers \ {recordingTimerRef} ELSE timers
  /\ recordingTimerRef' = 0
  /\ IF outcome = "accepted"
     THEN /\ gesture' = [measured EXCEPT ![g].blob = TRUE,
                                         ![g].run = "transcribe",
                                         ![g].transcribeCalls = @ + 1]
          /\ isProcessing' = TRUE
     ELSE /\ gesture' = [measured EXCEPT ![g].stream = "released"]
          /\ UNCHANGED isProcessing
  /\ UNCHANGED <<roomVars, streamVars, threadId, isRecording, messages, audioPlaying, mediaRecorderRef,
                 audioChunksRef, currentAudioRef, recordingStartTimeRef, now,
                 nPressed, audio>>

\* ---- Conversation log entries of the push-to-talk page
UserMessage(g) ==
  [id |-> Len(messages) + 1, type |-> "user", text |-> "transcript",
   audioUrl |-> 0, run |-> g]

\* audioUrl: the object URL created for the run's synthesized audio, 0 = absent
AssistantMessage(g) ==
  [id |-> Len(messages) + 1, type |-> "assistant", text |-> "reply",
   audioUrl |-> g, run |-> g]

ErrorMessage(g) ==
  [id |-> Len(messages) + 1, type |-> "assistant", text |-> "error",
   audioUrl |-> 0, run |-> g]

\* ---- Playback
Pause(a) == IF a.state = "playing" THEN [a EXCEPT !.state = "paused"] ELSE a

\* The elements after playAudio's "stop any currently playing audio".
StopCurrent ==
  IF currentAudioRef # 0
  THEN [audio EXCEPT ![currentAudioRef] = Pause(@)]
  ELSE audio

\* playAudio(audioUrl, messageId)
PlayAudio(audioUrl, messageId) ==
  /\ audio' = Append(StopCurrent, [url |-> audioUrl, state |-> "playing"])
  /\ currentAudioRef' = Len(audio) + 1
  /\ audioPlaying' = messageId

\* ---- processAudio, one action per continuation
\* processAudio issuing the Chat request without having appended the user Turn
TranscribeOkNoUserTurn(g) ==
  /\ gesture[g].run = "transcribe"
  /\ gesture' = [gesture EXCEPT ![g].run = "reason", ![g].chatCalls = @ + 1,
                                ![g].thread_id = threadId]
  /\ UNCHANGED <<roomVars, streamVars, threadId, isRecording, isProcessing, messages, audioPlaying,
                 mediaRecorderRef, audioChunksRef, currentAudioRef,
                 recordingStartTimeRef, recordingTimerRef, now, timers, lastStop,
                 nPressed, audio>>

\* processAudio generating the session identity anew for each Chat request
TranscribeOkFreshThread(g) ==
  /\ gesture[g].run = "transcribe"
  /\ messages' = Append(messages, UserMessage(g))
  /\ gesture' = [gesture EXCEPT ![g].run = "reason", ![g].chatCalls = @ + 1,
                                ![g].thread_id = SessionId(now + g)]
  /\ UNCHANGED <<roomVars, streamVars, threadId, isRecording, isProcessing, audioPlaying, mediaRecorderRef,
                 audioChunksRef, currentAudioRef, recordingStartTimeRef,
                 recordingTimerRef, now, timers, lastStop, nPressed, audio>>

\* Transcribe answered ok and its JSON was read: user Turn, then the Chat request
\* with thread_id: threadId.
TranscribeOk(g) ==
  /\ gesture[g].run = "transcribe"
  /\ messages' = Append(messages, UserMessage(g))
  /\ gesture' = [gesture EXCEPT ![g].run = "reason", ![g].chatCalls = @ + 1,
                                ![g].thread_id = threadId]
  /\ UNCHANGED <<roomVars, streamVars, threadId, isRecording, isProcessing, audioPlaying, mediaRecorderRef,
                 audioChunksRef, currentAudioRef, recordingStartTimeRef,
                 recordingTimerRef, now, timers, lastStop, nPressed, audio>>

\* Chat answered ok: the text-to-speech request.
ReasonOk(g) ==
  /\ gesture[g].run = "reason"
  /\ gesture' = [gesture EXCEPT ![g].run = "synthesize", ![g].ttsCalls = @ + 1]
  /\ UNCHANGED <<roomVars, streamVars, threadId, isRecording, isProcessing, messages, audioPlaying, mediaRecorderRef,
                 audioChunksRef, currentAudioRef, recordingStartTimeRef,
                 recordingTimerRef, now, timers, lastStop, nPressed, audio>>

\* Text-to-speech answered ok: assistant Turn, auto-play, finally, and the
\* statement of onstop that follows its await processAudio.
SynthesizeOk(g) ==
  /\ gesture[g].run = "synthesize"
  /\ messages' = Append(messages, AssistantMessage(g))
  /\ PlayAudio(AssistantMessage(g).audioUrl, AssistantMessage(g).id)
  /\ isProcessing' = FALSE
  /\ gesture' = [gesture EXCEPT ![g].run = "done", ![g].stream = "released"]
  /\ UNCHANGED <<roomVars, streamVars, threadId, isRecording, mediaRecorderRef, audioChunksRef,
                 recordingStartTimeRef, recordingTimerRef, now, timers, lastStop, nPressed>>

\* a processAudio that issues the request of a failed stage once more
StageFailedRetried(g) ==
  /\ gesture[g].run \in {"transcribe", "reason", "synthesize"}
  /\ gesture' = [gesture EXCEPT
                   ![g].transcribeCalls = IF gesture[g].run = "transcribe" THEN @ + 1 ELSE @,
                   ![g].chatCalls       = IF gesture[g].run = "reason" THEN @ + 1 ELSE @,
                   ![g].ttsCalls        = IF gesture[g].run = "synthesize" THEN @ + 1 ELSE @]
  /\ UNCHANGED <<roomVars, streamVars, threadId, isRecording, isProcessing, messages, audioPlaying,
                 mediaRecorderRef, audioChunksRef, currentAudioRef,
                 recordingStartTimeRef, recordingTimerRef, now, timers, lastStop,
                 nPressed, audio>>

\* A stage's fetch rejects, answers a non-ok status, or its body cannot be read:
\* catch, finally, and the statement of onstop that follows its await processAudio.
StageFailed(g) ==
  /\ gesture[g].run \in {"transcribe", "reason", "synthesize"}
  /\ messages' = Append(messages, ErrorMessage(g))
  /\ isProcessing' = FALSE
  /\ gesture' = [gesture EXCEPT ![g].run = "failed", ![g].failedAt = gesture[g].run,
                                ![g].stream = "released"]
  /\ UNCHANGED <<roomVars, streamVars, threadId, isRecording, audioPlaying, mediaRecorderRef, audioChunksRef,
                 currentAudioRef, recordingStartTimeRef, recordingTimerRef, now,
                 timers, lastStop, nPressed, audio>>

\* ---- Playback events
\* Click on "Play audio" of message i.
Replay(i) ==
  /\ i \in 1..Len(messages)
  /\ messages[i].audioUrl # 0
  /\ Len(audio) < MaxPlays
  /\ PlayAudio(messages[i].audioUrl, messages[i].id)
  /\ UNCHANGED <<roomVars, streamVars, threadId, isRecording, isProcessing, messages, mediaRecorderRef,
                 audioChunksRef, recordingStartTimeRef, recordingTimerRef, now,
                 timers, gesture, lastStop, nPressed>>

\* Playback of element h reaches the end of its media: the user agent queues
\* the task that fires "ended".
ReachEnd(h) ==
  /\ h \in 1..Len(audio)
  /\ audio[h].state = "playing"
  /\ audio' = [audio EXCEPT ![h].state = "ending"]
  /\ UNCHANGED <<roomVars, streamVars, threadId, isRecording, isProcessing, messages, audioPlaying, mediaRecorderRef,
                 audioChunksRef, currentAudioRef, recordingStartTimeRef,
                 recordingTimerRef, now, timers, gesture, lastStop, nPressed>>

\* an onended that leaves the marker and the ref as they are
OnEndedKeepsMarker(h) ==
  /\ h \in 1..Len(audio)
  /\ audio[h].state = "ending"
  /\ audio' = [audio EXCEPT ![h].state = "ended"]
  /\ UNCHANGED <<roomVars, streamVars, threadId, isRecording, isProcessing, messages,
                 audioPlaying, mediaRecorderRef, audioChunksRef, currentAudioRef,
                 recordingStartTimeRef, recordingTimerRef, now, timers, gesture, lastStop,
                 nPressed>>

\* audio.onended of element h
OnEnded(h) ==
  /\ h \in 1..Len(audio)
  /\ audio[h].state = "ending"
  /\ audio' = [audio EXCEPT ![h].state = "ended"]
  /\ audioPlaying' = 0
  /\ currentAudioRef' = 0
  /\ UNCHANGED <<roomVars, streamVars, threadId, isRecording, isProcessing, messages, mediaRecorderRef,
                 audioChunksRef, recordingStartTimeRef, recordingTimerRef, now,
                 timers, gesture, lastStop, nPressed>>

MaxAudio == MaxGestures + MaxPlays

(***************************************************************************)
(* Streaming page: ChatInterface                                           *)
(***************************************************************************)
\* a transcription handler that takes every speaker for the user
RoleOfAlwaysUser(toolName) == "user"

\* transcription: data.toolName === 'agent' ? 'assistant' : 'user'
RoleOf(toolName) == IF toolName = "agent" THEN "assistant" ELSE "user"

ChatTurn(role, content) ==
  [role |-> role, content |-> content, toolName |-> Undefined, status |-> Undefined]

\* the system message a tool_call adds: metadata {toolName, status: 'pending'}
ToolTurn(toolName, content) ==
  [role |-> "system", content |-> content, toolName |-> toolName, status |-> "pending"]

\* the ToolStatus a tool_call adds: name: data.toolName || 'Unknown Tool'
NewTool(toolName, content) ==
  [name |-> IF toolName = Undefined THEN "Unknown Tool" ELSE toolName,
   status |-> "running", message |-> content]

\* prev.filter(t => t.name !== data.toolName)
RECURSIVE RemoveTool(_, _)
RemoveTool(tools, toolName) ==
  IF tools = <<>> THEN <<>>
  ELSE IF Head(tools).name # toolName
       THEN <<Head(tools)>> \o RemoveTool(Tail(tools), toolName)
       ELSE RemoveTool(Tail(tools), toolName)

\* a findLastIndex that does not test the role: m.metadata?.toolName === data.toolName
FindLastIndexAnyRole(msgs, toolName) ==
  LET hits == {i \in 1..Len(msgs) : msgs[i].toolName = toolName}
  IN IF hits = {} THEN 0 ELSE CHOOSE i \in hits : \A j \in hits : j <= i

\* prev.findLastIndex(m => m.role === 'system' && m.metadata?.toolName === data.toolName)
\* 0 stands for -1
FindLastIndex(msgs, toolName) ==
  LET hits == {i \in 1..Len(msgs) : msgs[i].role = "system" /\ msgs[i].toolName = toolName}
  IN IF hits = {} THEN 0 ELSE CHOOSE i \in hits : \A j \in hits : j <= i

\* the setMessages updater of tool_result
ApplyToolResult(msgs, toolName, content) ==
  LET idx == FindLastIndex(msgs, toolName)
  IN IF idx # 0
     THEN [msgs EXCEPT ![idx] = [@ EXCEPT !.content = content, !.status = "success"]]
     ELSE msgs

\* the setMessages updater of the commit effect (state === 'thinking' && liveUserText)
CommitPreview(msgs, live) ==
  IF msgs # <<>> /\ msgs[Len(msgs)].role = "user" /\ msgs[Len(msgs)].content = live
  THEN msgs
  ELSE Append(msgs, ChatTurn("user", live))

\* effects whose commit clears the preview slot
RunEffectsClearOnCommit(st, live, msgs, running) ==
  [messages |-> IF st = "thinking" /\ live # "" THEN CommitPreview(msgs, live) ELSE msgs,
   live     |-> IF st = "speaking" \/ st = "thinking" THEN "" ELSE live,
   stt      |-> IF st = "listening" THEN running \cup {st} ELSE running]

\* effects that do not clear the preview slot in speaking
RunEffectsKeepInSpeaking(st, live, msgs, running) ==
  [messages |-> IF st = "thinking" /\ live # "" THEN CommitPreview(msgs, live) ELSE msgs,
   live     |-> live,
   stt      |-> IF st = "listening" THEN running \cup {st} ELSE running]

\* The two effects with dependencies [state, liveUserText], run after a render
\* in which one of them changed; st, live, msgs, running: the rendered values.
\* The state effect starts recognition in listening and clears the preview in
\* speaking; the commit effect appends the preview in thinking.
RunEffects(st, live, msgs, running) ==
  [messages |-> IF st = "thinking" /\ live # "" THEN CommitPreview(msgs, live) ELSE msgs,
   live     |-> IF st = "speaking" THEN "" ELSE live,
   stt      |-> IF st = "listening" THEN running \cup {st} ELSE running]

\* The component after a handler left it with st, live, msgs.
Rendered(st, live, msgs) ==
  IF st # state \/ live # liveUserText
  THEN RunEffects(st, live, msgs, stt)
  ELSE [messages |-> msgs, live |-> live, stt |-> stt]

Commit(r) ==
  /\ chatMessages' = r.messages
  /\ liveUserText' = r.live
  /\ stt' = r.stt
  /\ Len(chatMessages') <= MaxLog

\* useVoiceAssistant reports a new state.
StateChange(s) ==
  /\ s # state
  /\ state' = s
  /\ Commit(Rendered(s, liveUserText, chatMessages))
  /\ enteredWithPreview' = (state = "listening" /\ s = "thinking" /\ liveUserText # "")
  /\ UNCHANGED <<roomVars, pttVars, activeTools, lastEvent>>

\* onresult of a running recognition whose callback captured state c.
SpeechResult(c, text) ==
  /\ c \in stt
  /\ Commit(Rendered(state,
                     IF c = "listening" \/ c = "thinking" THEN text ELSE liveUserText,
                     chatMessages))
  /\ UNCHANGED <<roomVars, pttVars, state, activeTools, lastEvent, enteredWithPreview>>

\* A running recognition ends by itself (silence, error, abort by the browser).
SpeechEnd(c) ==
  /\ c \in stt
  /\ stt' = stt \ {c}
  /\ UNCHANGED <<roomVars, pttVars, state, chatMessages, liveUserText, activeTools, lastEvent,
                 enteredWithPreview>>

Received(type, toolName) ==
  [type |-> type, toolName |-> toolName, seq |-> 1 - lastEvent.seq]

\* a transcription handler that drops a Turn identical to the last one
TranscriptionDeduplicated(toolName, content) ==
  LET role == RoleOf(toolName)
      turn == ChatTurn(role, content)
  IN
  /\ Commit(Rendered(state,
                     IF role = "user" THEN "" ELSE liveUserText,
                     IF chatMessages # <<>> /\ chatMessages[Len(chatMessages)] = turn
                     THEN chatMessages
                     ELSE Append(chatMessages, turn)))
  /\ lastEvent' = Received("transcription", toolName)
  /\ UNCHANGED <<roomVars, pttVars, state, activeTools, enteredWithPreview>>

\* data channel: {type: 'transcription', toolName, content}
Transcription(toolName, content) ==
  LET role == RoleOf(toolName)
  IN
  /\ Commit(Rendered(state,
                     IF role = "user" THEN "" ELSE liveUserText,
                     Append(chatMessages, ChatTurn(role, content))))
  /\ lastEvent' = Received("transcription", toolName)
  /\ UNCHANGED <<roomVars, pttVars, state, activeTools, enteredWithPreview>>

\* data channel: {type: 'tool_call', toolName, content}
ToolCall(toolName, content) ==
  /\ Len(activeTools) < MaxTools
  /\ activeTools' = Append(activeTools, NewTool(toolName, content))
  /\ Commit(Rendered(state, liveUserText,
                     Append(chatMessages, ToolTurn(toolName, content))))
  /\ lastEvent' = Received("tool_call", toolName)
  /\ UNCHANGED <<roomVars, pttVars, state, enteredWithPreview>>

\* data channel: {type: 'tool_result', toolName, content}
ToolResult(toolName, content) ==
  /\ activeTools' = RemoveTool(activeTools, toolName)
  /\ Commit(Rendered(state, liveUserText,
                     ApplyToolResult(chatMessages, toolName, content)))
  /\ lastEvent' = Received("tool_result", toolName)
  /\ UNCHANGED <<roomVars, pttVars, state, enteredWithPreview>>

(***************************************************************************)
(* Streaming page: VoiceChatPage (start screen, token, room)               *)
(***************************************************************************)
\* what the fetch of /api/livekit-token can come to:
\*   "token"      success status, JSON body with a token
\*   "error_json" non-success status, JSON body without a token
\*   "failed"     the fetch rejects, or the body is not JSON
TokenResponses == {"token", "error_json", "failed"}

\* Click on the start screen's button: connect up to its await fetch.
Connect ==
  /\ ~isStarted
  /\ pendingTokens < MaxPending
  /\ pendingTokens' = pendingTokens + 1
  /\ UNCHANGED <<pttVars, streamVars, isStarted, token>>

\* The rest of connect: response.json(), setToken(data.token),
\* setIsStarted(true); the status of the response is not read.  The catch
\* only alerts.
TokenResponse(response) ==
  /\ pendingTokens > 0
  /\ pendingTokens' = pendingTokens - 1
  /\ IF response = "failed"
     THEN UNCHANGED <<isStarted, token>>
     ELSE /\ token' = IF response = "token" THEN "jwt" ELSE Undefined
          /\ isStarted' = TRUE
  /\ UNCHANGED <<pttVars, streamVars>>

\* handleEnd; ChatInterface is unmounted and its state discarded.
HandleEnd ==
  /\ isStarted
  /\ isStarted' = FALSE
  /\ token' = ""
  /\ state' = "idle"
  /\ chatMessages' = <<>>
  /\ liveUserText' = ""
  /\ activeTools' = <<>>
  /\ stt' = {}
  /\ lastEvent' = [type |-> "none", toolName |-> Undefined, seq |-> 0]
  /\ enteredWithPreview' = FALSE
  /\ UNCHANGED <<pttVars, pendingTokens>>

(***************************************************************************)
(* Specifications                                                          *)
(***************************************************************************)
\* Capture session and pipeline of the push-to-talk page.
CaptureSteps ==
  \/ \E g \in Gestures : DeviceDenied(g)
  \/ \E g \in Gestures : DeviceGranted(g)
  \/ \E g \in Gestures, size \in ChunkSizes : DataAvailable(g, size)
  \/ Release
  \/ Tick
  \/ \E g \in Gestures : OnStop(g)
  \/ \E g \in Gestures : TranscribeOk(g)
  \/ \E g \in Gestures : ReasonOk(g)
  \/ \E g \in Gestures : SynthesizeOk(g)
  \/ \E g \in Gestures : StageFailed(g)

CaptureNext ==
  \/ Press
  \/ CaptureSteps

PlaybackEvents ==
  \/ \E i \in 1..MaxGestures * 2 : Replay(i)
  \/ \E h \in 1..MaxAudio : ReachEnd(h)
  \/ \E h \in 1..MaxAudio : OnEnded(h)

\* The push-to-talk page: capture, pipeline and the playback events.
Next ==
  \/ CaptureNext
  \/ PlaybackEvents

\* No press is being served: no device request is pending, no recorder is
\* live and no pipeline run is in progress.
Quiet ==
  \A g \in Gestures :
    /\ ~Pending(g)
    /\ gesture[g].recorder \notin {"recording", "stopping"}
    /\ gesture[g].run \notin {"transcribe", "reason", "synthesize"}

\* The push-to-talk page used one turn at a time: the record button is
\* pressed only when no earlier press is still being served.
PlaybackNext ==
  \/ Quiet /\ Press
  \/ CaptureSteps
  \/ PlaybackEvents

\* The streaming page.
StreamNext ==
  \/ \E s \in AssistantStates : StateChange(s)
  \/ \E c \in AssistantStates, text \in Contents : SpeechResult(c, text)
  \/ \E c \in AssistantStates : SpeechEnd(c)
  \/ \E n \in SpeakerNames, c \in Contents : Transcription(n, c)
  \/ \E n \in ToolNames, c \in Contents : ToolCall(n, c)
  \/ \E n \in ToolNames, c \in Contents : ToolResult(n, c)

\* The file exports two pages; one of them is mounted, and the state of the
\* other stays as constructed.
PushToTalkUnused ==
  /\ nPressed = 0
  /\ messages = <<>>

StreamingUnused ==
  /\ state = "idle"
  /\ chatMessages = <<>>
  /\ liveUserText = ""
  /\ activeTools = <<>>
  /\ stt = {}
  /\ lastEvent.type = "none"
  /\ ~enteredWithPreview

VariantNext ==
  \/ StreamingUnused /\ CaptureNext
  \/ PushToTalkUnused /\ StreamNext

\* The streaming page from its start screen on; ChatInterface is mounted
\* while isStarted.
SessionNext ==
  \/ Connect
  \/ \E response \in TokenResponses : TokenResponse(response)
  \/ HandleEnd
  \/ isStarted /\ StreamNext

Spec == Init /\ [][Next]_vars

\* Playback events change only audio, currentAudioRef and audioPlaying, and
\* read nothing the capture and pipeline actions write but messages.
CaptureSpec == Init /\ [][CaptureNext]_vars

StreamSpec == Init /\ [][StreamNext]_vars

\* Either variant, capture session and pipeline or streaming page.
VariantSpec == Init /\ [][VariantNext]_vars

SessionSpec == Init /\ [][SessionNext]_vars

PlaybackSpec == Init /\ [][PlaybackNext]_vars

(***************************************************************************)
(* Properties                                                              *)
(***************************************************************************)
InProgress(g) == gesture[g].run \in {"transcribe", "reason", "synthesize"}

\* positions in the push-to-talk log of run g's Turns of a type and text
TurnsOf(g, type, text) ==
  {i \in 1..Len(messages) :
     messages[i].run = g /\ messages[i].type = type /\ messages[i].text = text}

Playing == {h \in 1..Len(audio) : audio[h].state = "playing"}

\* C1: the pipeline is single-flight: while isProcessing is true no recorder
\* is recording, and at most one pipeline run is in progress at any time.
C1_SingleFlightPipeline ==
  /\ isProcessing => \A g \in Gestures : gesture[g].recorder # "recording"
  /\ Cardinality({g \in Gestures : InProgress(g)}) <= 1

\* C2: at most one capture cycle is open: never two open input streams and
\* never two live recorders.
C2_OneCaptureCycle ==
  /\ Cardinality({g \in Gestures : gesture[g].stream = "open"}) <= 1
  /\ Cardinality({g \in Gestures : gesture[g].recorder = "recording"}) <= 1

\* C3: after any sequence of auto-plays and replays at most one audio
\* element is playing.
C3_SingleFlightPlayback == Cardinality(Playing) <= 1

\* C4: a recording whose measured duration is below 500 ms is rejected as
\* RecordingTooShort, whatever its size; a recording so rejected has no Audio
\* Buffer and none of the three remote stages is ever called for it.
C4_TooShortRejected ==
  /\ (lastStop.g # 0 /\ lastStop.durationMs < MinDurationMs) =>
        /\ lastStop.outcome = "RecordingTooShort"
        /\ gesture[lastStop.g].result = "RecordingTooShort"
  /\ \A g \in Gestures :
        gesture[g].result = "RecordingTooShort" =>
          /\ ~gesture[g].blob
          /\ gesture[g].run = "none"
          /\ gesture[g].transcribeCalls = 0
          /\ gesture[g].chatCalls = 0
          /\ gesture[g].ttsCalls = 0

\* a recording that captured data and was stopped too early has been rejected
C4_Witness ==
  /\ lastStop.g # 0
  /\ lastStop.durationMs < MinDurationMs
  /\ lastStop.totalSize > 0
  /\ gesture[lastStop.g].result = "RecordingTooShort"

\* C5 as stated: a recording of 0 bytes is rejected as EmptyRecording whatever
\* its measured duration.
C5_EmptyWhateverDuration ==
  (lastStop.g # 0 /\ lastStop.totalSize = 0) => lastStop.outcome = "EmptyRecording"

\* C5 as amended: a recording of 0 bytes whose measured duration is at least
\* 500 ms is rejected as EmptyRecording, and no Audio Buffer or pipeline run
\* comes of it (below 500 ms the result is RecordingTooShort).
C5_EmptyRejectedWhenLongEnough ==
  /\ (lastStop.g # 0 /\ lastStop.totalSize = 0 /\ lastStop.durationMs >= MinDurationMs) =>
        /\ lastStop.outcome = "EmptyRecording"
        /\ gesture[lastStop.g].result = "EmptyRecording"
  /\ \A g \in Gestures :
        gesture[g].result = "EmptyRecording" => ~gesture[g].blob /\ gesture[g].run = "none"

C5_Witness ==
  /\ lastStop.g # 0
  /\ lastStop.totalSize = 0
  /\ lastStop.durationMs >= MinDurationMs
  /\ gesture[lastStop.g].result = "EmptyRecording"

\* C6: the user Turn of a run is in the log from the moment its Chat request
\* is issued and not before Transcribe succeeded; a successful run has exactly
\* one user Turn and one assistant Turn, the user Turn strictly first, and the
\* assistant Turn carries an audio handle; no other run has a reply Turn.
C6_UserTurnBeforeAssistantTurn ==
  \A g \in Gestures :
    LET users   == TurnsOf(g, "user", "transcript")
        replies == TurnsOf(g, "assistant", "reply")
    IN
    /\ gesture[g].run \in {"none", "transcribe"} => users = {}
    /\ gesture[g].chatCalls > 0 => Cardinality(users) = 1
    /\ gesture[g].run = "done" =>
          /\ Cardinality(replies) = 1
          /\ \A i \in users, j \in replies : i < j
          /\ \A j \in replies : messages[j].audioUrl # 0
    /\ gesture[g].run # "done" => replies = {}

\* a run has succeeded while the Turn of another run is in the log too
C6_Witness ==
  \E g \in Gestures :
    /\ gesture[g].run = "done"
    /\ \E i \in 1..Len(messages) : messages[i].run # g

\* C7: a failed run has exactly one error Turn, without an audio handle; if
\* Transcribe failed the run has no user Turn, and if Chat or text-to-speech
\* failed its user Turn is immediately before its error Turn.
C7_FailedRunErrorTurn ==
  \A g \in Gestures :
    gesture[g].run = "failed" =>
      LET errors == TurnsOf(g, "assistant", "error")
          users  == TurnsOf(g, "user", "transcript")
      IN
      /\ Cardinality(errors) = 1
      /\ \A e \in errors : messages[e].audioUrl = 0
      /\ gesture[g].failedAt = "transcribe" => users = {}
      /\ gesture[g].failedAt # "transcribe" =>
            \A e \in errors : e > 1 /\ (e - 1) \in users

\* entries of the Tool Activity list for a tool name
ToolEntries(tools, toolName) ==
  {i \in 1..Len(tools) : tools[i].name = toolName}

\* system Turns for a tool name that a step takes from pending to success
Completed(before, after, toolName) ==
  {i \in 1..Len(before) :
     /\ before[i].role = "system" /\ before[i].toolName = toolName
     /\ before[i].status = "pending"
     /\ i <= Len(after) /\ after[i].status = "success"}

\* C8: a tool_result for X that follows a tool_call for X removes exactly one
\* Tool Activity entry for X and takes exactly one system Turn from pending
\* to success.
C8_ToolResultCompletesOne ==
  [][(/\ lastEvent'.seq # lastEvent.seq
      /\ lastEvent.type = "tool_call" /\ lastEvent.toolName = "X"
      /\ lastEvent'.type = "tool_result" /\ lastEvent'.toolName = "X")
     =>
     /\ Cardinality(ToolEntries(activeTools', "X"))
          = Cardinality(ToolEntries(activeTools, "X")) - 1
     /\ Cardinality(Completed(chatMessages, chatMessages', "X")) = 1]_vars

\* C9: a system Turn that has reached success is never changed again, and a
\* tool_result changes no Turn but a pending one.
C9_SuccessTurnFrozen ==
  [][\A i \in 1..Len(chatMessages) :
        (chatMessages[i].role = "system" /\ chatMessages[i].status = "success")
        => (i <= Len(chatMessages') /\ chatMessages'[i] = chatMessages[i])]_vars

\* C10: a transcription with toolName "agent" appends an assistant Turn; one
\* with any other toolName, or none, appends a user Turn and leaves the live
\* preview slot empty.
C10_TranscriptionRole ==
  [][(lastEvent'.seq # lastEvent.seq /\ lastEvent'.type = "transcription")
     =>
     /\ Len(chatMessages') = Len(chatMessages) + 1
     /\ LET turn == chatMessages'[Len(chatMessages')]
        IN IF lastEvent'.toolName = "agent"
           THEN turn.role = "assistant"
           ELSE turn.role = "user" /\ liveUserText' = ""]_vars

\* a transcription without toolName arrived in thinking while the preview
\* source was running: the log ends with two user Turns and the slot is empty
C10_Witness ==
  /\ lastEvent.type = "transcription"
  /\ lastEvent.toolName = Undefined
  /\ state = "thinking"
  /\ stt # {}
  /\ Len(chatMessages) = 2
  /\ chatMessages[1].role = "user"
  /\ chatMessages[2].role = "user"
  /\ liveUserText = ""

\* the log ends with a user Turn of this content
LastIsUserTurn(msgs, content) ==
  /\ msgs # <<>>
  /\ msgs[Len(msgs)].role = "user"
  /\ msgs[Len(msgs)].content = content

\* a step that handles a data-channel message
EventStep == lastEvent'.seq # lastEvent.seq

\* a step that handles a transcription of the user
UserTranscriptionStep ==
  /\ EventStep
  /\ lastEvent'.type = "transcription"
  /\ lastEvent'.toolName # "agent"

UserTurns(msgs) == {i \in 1..Len(msgs) : msgs[i].role = "user"}

\* C11: a transition from listening to thinking with a non-empty preview
\* commits exactly one user Turn with the preview's content when the log does
\* not end with an identical user Turn, and none when it does; and for as long
\* as the state stays thinking nothing but a data-channel message adds a Turn.
C11_OneCommitPerThinking ==
  [][/\ (state = "listening" /\ state' = "thinking" /\ liveUserText # "") =>
          chatMessages' = IF LastIsUserTurn(chatMessages, liveUserText)
                          THEN chatMessages
                          ELSE Append(chatMessages, ChatTurn("user", liveUserText))
     /\ (enteredWithPreview /\ state' = "thinking" /\ ~EventStep) =>
          chatMessages' = chatMessages]_vars

\* C12: the authoritative transcription of the user and the commit of the
\* preview never both append a user Turn: when the preview in the slot has
\* been committed (commit first), the transcription adds no user Turn; when
\* the transcription came first, it empties the slot and the transition to
\* thinking then commits nothing.
C12_OneUserTurnPerUtterance ==
  [][/\ (/\ UserTranscriptionStep
         /\ enteredWithPreview
         /\ LastIsUserTurn(chatMessages, liveUserText)) =>
          Cardinality(UserTurns(chatMessages')) = Cardinality(UserTurns(chatMessages))
     /\ UserTranscriptionStep => liveUserText' = ""
     /\ (state # "thinking" /\ state' = "thinking" /\ liveUserText = "") =>
          chatMessages' = chatMessages]_vars

\* C13 as stated: the commit on the transition to thinking leaves the slot as
\* it is, and a slot that is non-empty in thinking stays non-empty until the
\* state becomes speaking.
C13_PreviewKeptUntilSpeaking ==
  [][/\ (state # "thinking" /\ state' = "thinking") => liveUserText' = liveUserText
     /\ (enteredWithPreview /\ liveUserText # "" /\ state' # "speaking") =>
          liveUserText' # ""]_vars

\* C13 as amended: the commit on the transition to thinking leaves the slot as
\* it is and the committed text is in the log as a user Turn; a slot that is
\* non-empty in thinking stays non-empty until the state becomes speaking or
\* a transcription of the user arrives, and that transcription empties it.
C13_PreviewKeptUntilSpeakingOrTranscript ==
  [][/\ (state # "thinking" /\ state' = "thinking") =>
          /\ liveUserText' = liveUserText
          /\ liveUserText # "" =>
               \E i \in UserTurns(chatMessages') : chatMessages'[i].content = liveUserText'
     /\ (state = "thinking" /\ liveUserText # "" /\ state' # "speaking"
         /\ ~UserTranscriptionStep) =>
          liveUserText' # ""
     /\ (state = "thinking" /\ UserTranscriptionStep) => liveUserText' = ""]_vars

\* the preview was committed on entering thinking and is still in the slot
\* while another message (a tool call) has been logged after it
C13_Witness ==
  /\ state = "thinking"
  /\ enteredWithPreview
  /\ liveUserText # ""
  /\ Len(chatMessages) = 2
  /\ chatMessages[1] = ChatTurn("user", liveUserText)
  /\ chatMessages[2].role = "system"

C15_AppendOnly ==
  [][/\ Len(messages') >= Len(messages)
     /\ \A i \in 1..Len(messages) : messages'[i] = messages[i]
     /\ Len(chatMessages') >= Len(chatMessages)
     /\ \A i \in 1..Len(chatMessages) :
          /\ chatMessages'[i].role = chatMessages[i].role
          /\ chatMessages[i].role \in {"user", "assistant"} =>
               chatMessages'[i] = chatMessages[i]]_vars

\* a tool_result without toolName was applied to a log that holds a user Turn
\* (which has no toolName either) before the system Turn of the tool call
C15_Witness ==
  /\ lastEvent.type = "tool_result"
  /\ lastEvent.toolName = Undefined
  /\ Len(chatMessages) = 2
  /\ chatMessages[1].role = "user"
  /\ chatMessages[1].toolName = Undefined
  /\ chatMessages[2].role = "system"
  /\ chatMessages[2].status = "success"

Rejected(g) == gesture[g].result \in {"RecordingTooShort", "EmptyRecording"}

\* C16: once stop() has rejected a recording its input stream is released,
\* its duration timer is stopped, the log holds no Turn of it, no pipeline run
\* has started for it and its recorder is inactive.
C16_RejectionReleases ==
  \A g \in Gestures :
    Rejected(g) =>
      /\ gesture[g].stream = "released"
      /\ g \notin timers
      /\ \A i \in 1..Len(messages) : messages[i].run # g
      /\ gesture[g].run = "none"
      /\ gesture[g].recorder = "inactive"

\* C17: the stream of an accepted recording is released when stop() builds
\* the Audio Buffer: no input stream is open while a pipeline run is in
\* progress.
C17_ReleasedBeforePipeline ==
  \A g \in Gestures :
    /\ gesture[g].blob => gesture[g].stream = "released"
    /\ InProgress(g) => \A h \in Gestures : gesture[h].stream # "open"

\* C18: stopRecording is idempotent and does nothing when no recording is
\* active (the ref is empty or isRecording is false), and no gesture gets
\* more than one Audio Buffer or pipeline run.
C18_StopIdempotent ==
  LET once  == StopRecording(mediaRecorderRef, isRecording, gesture)
      twice == StopRecording(mediaRecorderRef, once.isRecording, once.gesture)
  IN
  /\ twice = once
  /\ (mediaRecorderRef = 0 \/ ~isRecording) =>
        once = [isRecording |-> isRecording, gesture |-> gesture]
  /\ \A g \in Gestures :
        /\ gesture[g].transcribeCalls <= 1
        /\ gesture[g].blob <=> gesture[g].transcribeCalls = 1

\* the button is released again after the recording it stopped has gone
\* through its pipeline run, the ref still holding that recorder
C18_Witness ==
  /\ mediaRecorderRef # 0
  /\ ~isRecording
  /\ ButtonRendered
  /\ gesture[mediaRecorderRef].recorder = "inactive"
  /\ gesture[mediaRecorderRef].run = "done"

\* C19: each stage of a gesture's run is called at most once; the Chat request
\* is issued only after Transcribe succeeded and the text-to-speech request
\* only after Chat succeeded; after a failure no request follows.
C19_StagesInOrderOnce ==
  \A g \in Gestures :
    LET r == gesture[g] IN
    /\ r.transcribeCalls <= 1 /\ r.chatCalls <= 1 /\ r.ttsCalls <= 1
    /\ r.ttsCalls <= r.chatCalls /\ r.chatCalls <= r.transcribeCalls
    /\ r.run \in {"none", "transcribe"} => r.chatCalls = 0
    /\ r.run \in {"none", "transcribe", "reason"} => r.ttsCalls = 0
    /\ r.chatCalls = 1 => TurnsOf(g, "user", "transcript") # {}
    /\ r.run = "failed" =>
          /\ r.failedAt = "transcribe" => r.chatCalls = 0 /\ r.ttsCalls = 0
          /\ r.failedAt = "reason" => r.chatCalls = 1 /\ r.ttsCalls = 0
          /\ r.failedAt = "synthesize" => r.chatCalls = 1 /\ r.ttsCalls = 1

\* one run failed at Chat and another one went through its three stages
C19_Witness ==
  \E g, h \in Gestures :
    /\ gesture[g].run = "failed" /\ gesture[g].failedAt = "reason"
    /\ gesture[h].run = "done" /\ gesture[h].ttsCalls = 1

C21_StartedOnlyWithToken == isStarted => token = "jwt"

\* C22: the step in which a device request fails changes nothing but the
\* request itself: the log, isRecording, isProcessing (so the record button
\* stays as it was) and every recorder, stream and run are as before; the
\* failed press never gets a stream, a recorder or a run afterwards.
C22_DeniedStartFrame ==
  [][\A g \in Gestures :
       /\ (Pending(g) /\ gesture'[g].request = "denied") =>
            /\ messages' = messages
            /\ isRecording' = isRecording
            /\ isProcessing' = isProcessing
            /\ mediaRecorderRef' = mediaRecorderRef
            /\ timers' = timers
            /\ gesture' = [gesture EXCEPT ![g].request = "denied"]
            /\ gesture'[g].stream = "none"
            /\ gesture'[g].recorder = "none"
            /\ gesture'[g].run = "none"
       /\ gesture[g].request = "denied" => gesture'[g] = gesture[g]]_vars

\* the device request of one press failed and a later press is recording
C22_Witness ==
  \E g, h \in Gestures :
    /\ g < h
    /\ gesture[g].request = "denied"
    /\ gesture[h].recorder = "recording"
    /\ messages = <<>>

\* C23: the speech preview changes the slot only while the state is
\* listening: a step that is neither a change of state nor a data-channel
\* message, taken in thinking, speaking or idle, leaves the slot as it is.
C23_PreviewOnlyWhileListening ==
  [][(state # "listening" /\ state' = state /\ ~EventStep) =>
       liveUserText' = liveUserText]_vars

\* C24: a step that plays a new handle makes it the current handle and sets
\* the marker to a Turn that carries the handle's audio; when the current
\* handle completes, the marker is cleared and no handle is current.
C24_MarkerTracksHandle ==
  [][/\ Len(audio') = Len(audio) + 1 =>
          /\ currentAudioRef' = Len(audio')
          /\ audio'[Len(audio')].state = "playing"
          /\ audioPlaying' \in 1..Len(messages')
          /\ messages'[audioPlaying'].audioUrl = audio'[Len(audio')].url
     /\ \A h \in 1..Len(audio) :
          (/\ audio[h].state = "ending"
           /\ audio'[h].state = "ended"
           /\ currentAudioRef = h) =>
             audioPlaying' = 0 /\ currentAudioRef' = 0]_vars

\* a replay superseded the auto-play and then completed by itself
C24_Witness ==
  /\ Len(audio) = 2
  /\ audio[1].state = "paused"
  /\ audio[2].state = "ended"
  /\ audioPlaying = 0
  /\ currentAudioRef = 0

\* C25: isProcessing is true exactly while a pipeline run is in progress: it
\* is true from the Transcribe request of a run until that run ends, and
\* nothing but the end of the run makes it false.
C25_ProcessingWhileRunning ==
  isProcessing <=> \E g \in Gestures : InProgress(g)

\* C26: every transcription event appends exactly one Turn, of the role its
\* toolName designates and with its content, at the end of the log, whatever
\* the log already holds.
C26_TranscriptionAppendsOne ==
  [][(EventStep /\ lastEvent'.type = "transcription") =>
       \A c \in Contents :
         Transcription(lastEvent'.toolName, c) =>
           chatMessages' = Append(chatMessages, ChatTurn(RoleOf(lastEvent'.toolName), c))]_vars

\* two identical transcriptions of the agent gave two identical Turns
C26_Witness ==
  /\ lastEvent.type = "transcription"
  /\ Len(chatMessages) = 2
  /\ chatMessages[1].role = "assistant"
  /\ chatMessages[2] = chatMessages[1]

\* C27: a press whose release was handled while its device request was
\* still pending does not start a recording, and every live recording is the
\* one a release ends: the recorder in mediaRecorderRef, with isRecording true.
C27_ReleaseEndsRecording ==
  [][\A g \in Gestures :
       /\ gesture[g].request = "pending_released" => gesture'[g].recorder # "recording"
       /\ gesture'[g].recorder = "recording" =>
            mediaRecorderRef' = g /\ isRecording']_vars

\* system Turns of a tool name that are still pending
PendingTurns(msgs, toolName) ==
  {i \in 1..Len(msgs) :
     msgs[i].role = "system" /\ msgs[i].toolName = toolName /\ msgs[i].status = "pending"}

\* C28: for every tool name there is a Tool Activity entry of that tool
\* exactly when a system Turn of that tool is still pending.
C28_ActivityMatchesPending ==
  \A n \in ToolNames :
    ToolEntries(activeTools, NewTool(n, "a").name) # {}
      <=> PendingTurns(chatMessages, n) # {}

\* C29: a tool_result without toolName that follows a tool_call without
\* toolName removes the Tool Activity entry the call created and takes the
\* call's system Turn to success.
C29_UnnamedToolCompleted ==
  [][(/\ EventStep
      /\ lastEvent.type = "tool_call" /\ lastEvent.toolName = Undefined
      /\ lastEvent'.type = "tool_result" /\ lastEvent'.toolName = Undefined)
     =>
     /\ Cardinality(ToolEntries(activeTools', NewTool(Undefined, "a").name))
          < Cardinality(ToolEntries(activeTools, NewTool(Undefined, "a").name))
     /\ Cardinality(Completed(chatMessages, chatMessages', Undefined)) = 1]_vars

\* C30: when a handle that is no longer the current one completes, the
\* marker and the current-handle reference of the later playback stay as
\* they are.
C30_StaleCompletionIgnored ==
  [][\A h \in 1..Len(audio) :
       (/\ audio[h].state = "ending"
        /\ audio'[h].state = "ended"
        /\ currentAudioRef # h) =>
          audioPlaying' = audioPlaying /\ currentAudioRef' = currentAudioRef]_vars
====
